---------------------------- MODULE Spec2Model ----------------------------
(***************************************************************************)
(* Fault path editing of kite's disloc model (src/src/models/disloc.py):   *)
(* OkadaPath with its node list and derived OkadaSegment list, the three   *)
(* edit operations addNode / insertNode / moveNode, and dislocSource;      *)
(* DislocProcessor.process, which stacks the source vectors and calls the  *)
(* native solver; and the observers of a Scene (src/src/meta.py,           *)
(* src/src/scene.py).                                                      *)
(*                                                                         *)
(* Number representation.  Node coordinates are whole metres.  The derived *)
(* quantities are kept exact:                                              *)
(*   easting, northing of a segment : twice the value (e1 + dE/2 is stored *)
(*                                    as 2*e1 + dE)                        *)
(*   length                         : its square (dN**2 + dE**2)           *)
(*   width                          : [coef, pow, of], 15 * length**.66    *)
(*   strike                         : the cosine dN/length in lowest terms *)
(*                                    [sgn, num, den], cos^2 = num/den;    *)
(*                                    den = 0 is NaN                       *)
(***************************************************************************)
EXTENDS Integers, Sequences, FiniteSets, TLC

\* nodes    : self.nodes, a sequence of <<easting, northing>>
\* segments : self.segments, a sequence of OkadaSegment records; id is the
\*            identity of the object
\* nextId   : the identity the next OkadaSegment object gets
\* ftype    : the float type of the coordinates the caller passes, "float"
\*            (Python) or "numpy.float64"
\* last     : the caller's most recent call: its name, its pos argument (0
\*            when it has none), "ok" or the exception raised, and the value
\*            returned by dislocSource
VARIABLES nodes, segments, nextId, ftype, last

\* proc     : the caller's most recent call of DislocProcessor.process: its
\*            arguments, the calls it made of the native solver, and what it
\*            returned or raised
VARIABLES proc

\* peer     : a second OkadaPath, constructed after the first: whether it is
\*            built, whether the default of the nodes attribute handed it
\*            the list of the first path, its origin, nodes and segments
VARIABLES peer

\* scene    : a Scene as a Subject: its listeners, the stored displacement,
\*            phi and theta, and what the last call on it did
VARIABLES scene

pathVars == <<nodes, segments, nextId, ftype, last>>

others == <<proc, peer, scene>>

vars == <<nodes, segments, nextId, ftype, last, proc, peer, scene>>

-----------------------------------------------------------------------------
(* Bounds of the model *)

MaxNodes == 3

MaxCoord == 1

-----------------------------------------------------------------------------
(* Program constants *)

DefaultDepth == 0

DefaultSlip == 45

DefaultRake == 90

DefaultDip == 45

DefaultNu == 125

DefaultOpening == 0

WidthCoef == 15

WidthPow == 66

VerticalDip == 90

DipScale == 100000

-----------------------------------------------------------------------------
(* Python list semantics used by the path methods *)

InRange(s, i) == -Len(s) <= i /\ i < Len(s)

Norm(s, i) == IF i < 0 THEN i + Len(s) ELSE i

At(s, i) == s[Norm(s, i) + 1]

ListInsert(s, i, x) ==
    LET n == Len(s)
        k == IF i < 0 THEN (IF i + n < 0 THEN 0 ELSE i + n)
                      ELSE (IF i > n THEN n ELSE i)
    IN  SubSeq(s, 1, k) \o <<x>> \o SubSeq(s, k + 1, n)

ListSet(s, i, x) == [s EXCEPT ![Norm(s, i) + 1] = x]

-----------------------------------------------------------------------------
(* Arithmetic of the segment derivation *)

RECURSIVE GCD(_, _)
GCD(a, b) == IF b = 0 THEN a ELSE GCD(b, a % b)

Sgn(x) == IF x > 0 THEN 1 ELSE IF x < 0 THEN -1 ELSE 0

NaN == [sgn |-> 0, num |-> 0, den |-> 0]

\* dN/length with length = (dN**2 + dE**2)**.5, as sign and squared magnitude
Cosine(dN, len2) ==
    LET g == GCD(dN * dN, len2)
    IN  [sgn |-> Sgn(dN), num |-> (dN * dN) \div g, den |-> len2 \div g]

\* num.arccos(dN/length) * r2d; 0/0 of numpy floats is nan
StrikeOf(dN, len2) == IF len2 = 0 THEN NaN ELSE Cosine(dN, len2)

WidthOf(len2) == [coef |-> WidthCoef, pow |-> WidthPow, of |-> len2]

\* float division by zero: Python floats raise, numpy.float64 yields nan
ZeroDivision(p1, p2) == ftype = "float" /\ p1[1] = p2[1] /\ p1[2] = p2[2]

\* the five attributes both _newSegment and _moveSegment derive from P1 -> P2
Geometry(p1, p2) ==
    LET dE == p2[1] - p1[1]
        dN == p2[2] - p1[2]
        len2 == dN * dN + dE * dE
    IN  [northing |-> 2 * p1[2] + dN,
         easting  |-> 2 * p1[1] + dE,
         length   |-> len2,
         width    |-> WidthOf(len2),
         strike   |-> StrikeOf(dN, len2)]

-----------------------------------------------------------------------------
(* OkadaPath *)

\* OkadaSegment(**segment): a new object (id) with the derived attributes
\* and the declared defaults
_newSegment(p1, p2, id) ==
    LET g == Geometry(p1, p2)
    IN  [id       |-> id,
         northing |-> g.northing,
         easting  |-> g.easting,
         depth    |-> DefaultDepth,
         length   |-> g.length,
         width    |-> g.width,
         strike   |-> g.strike,
         slip     |-> DefaultSlip,
         rake     |-> DefaultRake,
         dip      |-> DefaultDip,
         nu       |-> DefaultNu,
         opening  |-> DefaultOpening,
         enabled  |-> TRUE]

\* _moveSegment, were it to replace the object by a freshly derived segment
MoveSegmentFresh(segs, pos, p1, p2) ==
    IF ZeroDivision(p1, p2) THEN [segments |-> segs, status |-> "ZeroDivisionError"]
    ELSE IF ~InRange(segs, pos) THEN [segments |-> segs, status |-> "IndexError"]
    ELSE [segments |-> ListSet(segs, pos, _newSegment(p1, p2, At(segs, pos).id)),
          status |-> "ok"]

\* segment_update is computed first (may raise), then self.segments[pos] is
\* read (may raise), then the five attributes are set on that object
_moveSegment(segs, pos, p1, p2) ==
    IF ZeroDivision(p1, p2) THEN [segments |-> segs, status |-> "ZeroDivisionError"]
    ELSE IF ~InRange(segs, pos) THEN [segments |-> segs, status |-> "IndexError"]
    ELSE LET g == Geometry(p1, p2)
             s == At(segs, pos)
         IN  [segments |-> ListSet(segs, pos,
                              [s EXCEPT !.northing = g.northing,
                                        !.easting  = g.easting,
                                        !.length   = g.length,
                                        !.width    = g.width,
                                        !.strike   = g.strike]),
              status |-> "ok"]

Outcome(ns, sg, nid, st) == [nodes |-> ns, segments |-> sg, nextId |-> nid, status |-> st]

\* addNode, were it to put the new segment in front of the others
AddNodePrepend(ns, sg, nid, node) ==
    LET nodes1 == Append(ns, node)
    IN  IF ~InRange(nodes1, -2) THEN Outcome(nodes1, sg, nid, "IndexError")
        ELSE IF ZeroDivision(At(nodes1, -2), At(nodes1, -1))
             THEN Outcome(nodes1, sg, nid, "ZeroDivisionError")
        ELSE Outcome(nodes1,
                     <<_newSegment(At(nodes1, -2), At(nodes1, -1), nid)>> \o sg,
                     nid + 1, "ok")

addNode(ns, sg, nid, node) ==
    LET nodes1 == Append(ns, node)
    IN  IF ~InRange(nodes1, -2) THEN Outcome(nodes1, sg, nid, "IndexError")
        ELSE IF ZeroDivision(At(nodes1, -2), At(nodes1, -1))
             THEN Outcome(nodes1, sg, nid, "ZeroDivisionError")
        ELSE Outcome(nodes1,
                     Append(sg, _newSegment(At(nodes1, -2), At(nodes1, -1), nid)),
                     nid + 1, "ok")

insertNode(ns, sg, nid, pos, node) ==
    LET nodes1 == ListInsert(ns, pos, node)
    IN  IF ~InRange(nodes1, pos) \/ ~InRange(nodes1, pos + 1)
        THEN Outcome(nodes1, sg, nid, "IndexError")
        ELSE IF ZeroDivision(At(nodes1, pos), At(nodes1, pos + 1))
        THEN Outcome(nodes1, sg, nid, "ZeroDivisionError")
        ELSE LET segs1 == Append(sg, _newSegment(At(nodes1, pos), At(nodes1, pos + 1), nid))
             IN  IF ~InRange(nodes1, pos - 1)
                 THEN Outcome(nodes1, segs1, nid + 1, "IndexError")
                 ELSE LET m == _moveSegment(segs1, pos - 1,
                                            At(nodes1, pos - 1), At(nodes1, pos))
                      IN  Outcome(nodes1, m.segments, nid + 1, m.status)

moveNode(ns, sg, nid, pos, node) ==
    IF ~InRange(ns, pos) THEN Outcome(ns, sg, nid, "IndexError")
    ELSE
    LET nodes1 == ListSet(ns, pos, node)
        first == IF pos < Len(sg)
                 THEN IF ~InRange(nodes1, pos + 1)
                      THEN [segments |-> sg, status |-> "IndexError"]
                      ELSE _moveSegment(sg, pos, At(nodes1, pos), At(nodes1, pos + 1))
                 ELSE [segments |-> sg, status |-> "ok"]
    IN  IF first.status # "ok" THEN Outcome(nodes1, first.segments, nid, first.status)
        ELSE IF pos # 0
        THEN IF ~InRange(nodes1, pos - 1)
             THEN Outcome(nodes1, first.segments, nid, "IndexError")
             ELSE LET m == _moveSegment(first.segments, pos,
                                        At(nodes1, pos - 1), At(nodes1, pos))
                  IN  Outcome(nodes1, m.segments, nid, m.status)
        ELSE Outcome(nodes1, first.segments, nid, "ok")

-----------------------------------------------------------------------------
(* Source vectors *)

\* dislocSource that passes every dip as it is
DislocSourceVerbatimDip(s) ==
    <<s.length, s.width, s.depth, -(s.dip * DipScale), s.strike, s.easting,
      s.northing,
      [fn |-> "cos", deg |-> s.rake, slip |-> s.slip],
      [fn |-> "sin", deg |-> s.rake, slip |-> s.slip],
      s.opening>>

\* OkadaSource.dislocSource: dsrc[0..9]; the dip is in 1e-5 degrees, so that
\* dip - 1e-5 is exact
OkadaSource_dislocSource(s) ==
    LET dip == IF s.dip = VerticalDip THEN s.dip * DipScale - 1
                                      ELSE s.dip * DipScale
    IN  <<s.length, s.width, s.depth, -dip, s.strike, s.easting, s.northing,
          [fn |-> "cos", deg |-> s.rake, slip |-> s.slip],
          [fn |-> "sin", deg |-> s.rake, slip |-> s.slip],
          s.opening>>

\* dislocSource without the filter on seg.enabled
RECURSIVE DislocSourceUnfiltered(_)
DislocSourceUnfiltered(segs) ==
    IF segs = <<>> THEN <<>>
    ELSE <<OkadaSource_dislocSource(Head(segs))>> \o DislocSourceUnfiltered(Tail(segs))

\* [seg.dislocSource() for seg in self.segments if seg.enabled]
RECURSIVE EnabledRows(_)
EnabledRows(segs) ==
    IF segs = <<>> THEN <<>>
    ELSE (IF Head(segs).enabled THEN <<OkadaSource_dislocSource(Head(segs))>> ELSE <<>>)
         \o EnabledRows(Tail(segs))

OkadaPath_dislocSource(segs) == EnabledRows(segs)

-----------------------------------------------------------------------------
(* The state machine: one path, edited and read by its caller *)

Points == (0..MaxCoord) \X (0..MaxCoord)

\* the indices a caller passes: every node's, and the one past the last
Positions == 0..Len(nodes)

Result(op, pos, status, ret) == [op |-> op, pos |-> pos, status |-> status, ret |-> ret]

\* no call of DislocProcessor.process yet
NoCall ==
    [n |-> 0, sources |-> <<>>, coords |-> <<>>, nthreads |-> <<>>,
     calls |-> <<>>, status |-> "none", result |-> <<>>]

\* no second path yet; default: what List.T(default=[]).default() hands to a
\* new object, the declared list itself ("same") or a copy of it ("copy")
NoPeer(default) ==
    [built |-> FALSE, default |-> default, origin |-> <<0, 0>>,
     nodes |-> <<>>, segments |-> <<>>, nextId |-> 1]

\* a stored value of no type yet: None
None == [type |-> "NoneType", v |-> 0]

\* Scene.__init__ with Subject.__init__: no listener, nothing stored.  op, arg
\* and status are the last call on the scene, notifies the calls of _notify
\* it made and invoked the listeners these called, in order; subscribed and
\* unsubscribed are the subscribe calls and the successful unsubscribe calls
\* made so far
NewScene ==
    [listeners |-> <<>>, displacement |-> None, phi |-> None, theta |-> None,
     op |-> "__init__", arg |-> None, status |-> "ok",
     notifies |-> 0, invoked |-> <<>>,
     subscribed |-> <<>>, unsubscribed |-> <<>>]

\* OkadaPath(origin_easting, origin_northing): the origin is the only node
Init ==
    /\ \E origin \in Points : nodes = <<origin>>
    /\ segments = <<>>
    /\ nextId = 1
    /\ ftype \in {"float", "numpy.float64"}
    /\ last = Result("__init__", 0, "ok", <<>>)
    /\ proc = NoCall
    /\ peer = NoPeer("copy")
    /\ scene = NewScene

Apply(op, pos, r) ==
    /\ nodes' = r.nodes
    /\ segments' = r.segments
    /\ nextId' = r.nextId
    /\ last' = Result(op, pos, r.status, <<>>)
    /\ UNCHANGED <<ftype, others>>

\* the three edit calls, with the new position drawn from the point set P
AddNodeIn(P) ==
    /\ Len(nodes) < MaxNodes
    /\ \E node \in P : Apply("addNode", 0, addNode(nodes, segments, nextId, node))

InsertNodeIn(P) ==
    /\ Len(nodes) < MaxNodes
    /\ \E pos \in Positions, node \in P :
          Apply("insertNode", pos, insertNode(nodes, segments, nextId, pos, node))

MoveNodeIn(P) ==
    \E pos \in Positions, node \in P :
       Apply("moveNode", pos, moveNode(nodes, segments, nextId, pos, node))

AddNode == AddNodeIn(Points)

InsertNode == InsertNodeIn(Points)

MoveNode == MoveNodeIn(Points)

\* the caller sets segment.enabled
SetEnabled ==
    \E i \in 1..Len(segments), b \in BOOLEAN :
       /\ segments' = [segments EXCEPT ![i].enabled = b]
       /\ last' = Result("setattr", 0, "ok", <<>>)
       /\ UNCHANGED <<nodes, nextId, ftype, others>>

\* values a caller gives to the attributes the path never derives
Overrides == [slip |-> 2, rake |-> 0, depth |-> 1, dip |-> VerticalDip, opening |-> 1]

\* the caller edits slip, rake, depth, dip and opening of a segment
SetAttr ==
    \E i \in 1..Len(segments) :
       /\ segments' = [segments EXCEPT ![i] = Overrides @@ @]
       /\ last' = Result("setattr", 0, "ok", <<>>)
       /\ UNCHANGED <<nodes, nextId, ftype, others>>

DislocSource ==
    /\ last' = Result("dislocSource", 0, "ok", OkadaPath_dislocSource(segments))
    /\ UNCHANGED <<nodes, segments, nextId, ftype, others>>

\* path editing alone
Next == AddNode \/ InsertNode \/ MoveNode

Spec == Init /\ [][Next]_vars

\* path editing in which every call succeeds
AddNodeOk == AddNode /\ last'.status = "ok"

InsertNodeOk == InsertNode /\ last'.status = "ok"

MoveNodeOk == MoveNode /\ last'.status = "ok"

NextOk == AddNodeOk \/ InsertNodeOk \/ MoveNodeOk

SpecOk == Init /\ [][NextOk]_vars

\* path editing along the northing axis, with the caller's edits of segment
\* attributes and the reads of the source matrix
LinePoints == {p \in Points : p[1] = 0}

AddNodeOnLine == AddNodeIn(LinePoints)

InsertNodeOnLine == InsertNodeIn(LinePoints)

MoveNodeOnLine == MoveNodeIn(LinePoints)

NextSegments ==
    \/ AddNodeOnLine
    \/ InsertNodeOnLine
    \/ MoveNodeOnLine
    \/ SetEnabled
    \/ SetAttr
    \/ DislocSource

InitOnLine == Init /\ nodes[1] \in LinePoints

SpecSegments == InitOnLine /\ [][NextSegments]_vars

-----------------------------------------------------------------------------
(* What the claims speak of *)

\* the segment has the midpoint and the length of the pair P1, P2
MidLen(s, p1, p2) ==
    /\ s.easting = p1[1] + p2[1]
    /\ s.northing = p1[2] + p2[2]
    /\ s.length = (p2[1] - p1[1]) * (p2[1] - p1[1]) + (p2[2] - p1[2]) * (p2[2] - p1[2])

\* the segment has the midpoint, length, width and strike derived from P1 -> P2
Derived(s, p1, p2) ==
    /\ MidLen(s, p1, p2)
    /\ s.width = WidthOf(s.length)
    /\ s.strike = StrikeOf(p2[2] - p1[2], s.length)

NonGeometry(s) == <<s.enabled, s.slip, s.rake, s.depth, s.dip, s.opening, s.nu>>

WellFormed == Len(segments) = Len(nodes) - 1

Edited(op) == op \in {"addNode", "insertNode", "moveNode"}

\* C1: whenever the path has N >= 2 nodes it has exactly N - 1 segments,
\* in every state after any call of addNode, insertNode or moveNode.
C1_SegmentCount == Len(nodes) >= 2 => Len(segments) = Len(nodes) - 1

\* C2: a failing addNode, insertNode or moveNode leaves the node list and
\* every segment exactly as they were before the call.
C2_FailAtomic ==
    [][(Edited(last'.op) /\ last'.status # "ok")
          => (nodes' = nodes /\ segments' = segments)]_vars

\* C3: after any sequence of successful edits, segment i has the midpoint and
\* the length of the node pair (nodes[i], nodes[i+1]), for every pair.
C3_SegmentsInNodeOrder ==
    \A i \in 1..(Len(nodes) - 1) :
        i <= Len(segments) /\ MidLen(segments[i], nodes[i], nodes[i + 1])

\* C4: after a successful moveNode of an interior node, the segment before it
\* and the segment after it both have the geometry derived from their node
\* pair, with the node's new position.
C4_MoveInterior ==
    (/\ last.op = "moveNode" /\ last.status = "ok"
     /\ 0 < last.pos /\ last.pos < Len(nodes) - 1
     /\ WellFormed)
    => /\ Derived(segments[last.pos], nodes[last.pos], nodes[last.pos + 1])
       /\ Derived(segments[last.pos + 1], nodes[last.pos + 1], nodes[last.pos + 2])

\* C5: a successful moveNode(pos) brings the one or two segments adjacent to
\* node pos up to date with their node pairs and changes no other segment and
\* no other node.
C5_MoveUpdatesAdjacent ==
    [][(/\ last'.op = "moveNode" /\ last'.status = "ok"
        /\ 0 <= last'.pos /\ last'.pos < Len(nodes)
        /\ WellFormed)
       => LET p == last'.pos
          IN  /\ Len(nodes') = Len(nodes) /\ Len(segments') = Len(segments)
              /\ \A j \in 1..Len(nodes) : j # p + 1 => nodes'[j] = nodes[j]
              /\ \A i \in 1..Len(segments) :
                    IF i \in {p, p + 1}
                    THEN /\ Derived(segments'[i], nodes'[i], nodes'[i + 1])
                         /\ segments'[i].id = segments[i].id
                         /\ NonGeometry(segments'[i]) = NonGeometry(segments[i])
                    ELSE segments'[i] = segments[i]]_vars

\* C6: moveNode of the first or of the last node of a path with at least two
\* nodes, to a position other than its single neighbour's, succeeds and
\* leaves the one adjacent segment derived from its node pair.
C6_MoveEnds ==
    LET n == Len(nodes)
    IN  (/\ last.op = "moveNode" /\ n >= 2 /\ WellFormed
         /\ \/ last.pos = 0 /\ nodes[1] # nodes[2]
            \/ last.pos = n - 1 /\ nodes[n] # nodes[n - 1])
        => /\ last.status = "ok"
           /\ last.pos = 0 => Derived(segments[1], nodes[1], nodes[2])
           /\ last.pos = n - 1 => Derived(segments[n - 1], nodes[n - 1], nodes[n])

\* C7: insertNode at index 0 of a node that differs from the former first node
\* succeeds, keeps every earlier segment with all its attributes, and adds one
\* new segment, derived from the pair (new node, former first node).
C7_InsertFirst ==
    [][(last'.op = "insertNode" /\ last'.pos = 0 /\ nodes'[1] # nodes[1])
       => /\ last'.status = "ok"
          /\ nodes' = <<nodes'[1]>> \o nodes
          /\ Len(segments') = Len(segments) + 1
          /\ \A i \in 1..Len(segments) :
                \E j \in 1..Len(segments') : segments'[j] = segments[i]
          /\ \E j \in 1..Len(segments') :
                /\ \A i \in 1..Len(segments) : segments[i].id # segments'[j].id
                /\ Derived(segments'[j], nodes'[1], nodes'[2])]_vars

\* C8: a successful addNode keeps every earlier node and every earlier segment
\* unchanged at its index, appends one node, and appends one segment derived
\* from the last two nodes.
C8_AddNodeAppendOnly ==
    [][(last'.op = "addNode" /\ last'.status = "ok")
       => /\ Len(nodes') = Len(nodes) + 1
          /\ SubSeq(nodes', 1, Len(nodes)) = nodes
          /\ Len(segments') = Len(segments) + 1
          /\ SubSeq(segments', 1, Len(segments)) = segments
          /\ Derived(segments'[Len(segments')],
                     nodes'[Len(nodes') - 1], nodes'[Len(nodes')])]_vars

\* an addNode that succeeded on a path that already had segments
C8_Witness == last.op = "addNode" /\ last.status = "ok" /\ Len(segments) >= 2

\* C9: across any addNode, insertNode or moveNode call every earlier segment
\* is still there as the same object, with its enabled flag, slip, rake,
\* depth, dip and opening (and nu) unchanged.
C9_EditsKeepNonGeometry ==
    [][Edited(last'.op)
       => \A i \in 1..Len(segments) :
             \E j \in 1..Len(segments') :
                /\ segments'[j].id = segments[i].id
                /\ NonGeometry(segments'[j]) = NonGeometry(segments[i])]_vars

\* a moveNode has recomputed a segment that is disabled and carries the
\* caller's slip
C9_Witness ==
    /\ last.op = "moveNode" /\ last.status = "ok" /\ last.pos = 0
    /\ Len(segments) >= 1
    /\ ~segments[1].enabled /\ segments[1].slip # DefaultSlip
    /\ Derived(segments[1], nodes[1], nodes[2])

EnabledIndices == {i \in 1..Len(segments) : segments[i].enabled}

Rank(i) == Cardinality({j \in EnabledIndices : j <= i})

\* the returned rows are the source vectors of the enabled segments, in
\* segment order
C10_RowsOfEnabled ==
    last.op = "dislocSource"
    => /\ Len(last.ret) = Cardinality(EnabledIndices)
       /\ \A i \in EnabledIndices :
             last.ret[Rank(i)] = OkadaSource_dislocSource(segments[i])

\* C10: dislocSource returns one row per enabled segment, in segment order,
\* each the source vector of its segment; disabled segments give no row (so a
\* segment enabled again has its row back at its place), and neither nodes nor
\* segments change by the call.
C10_DislocSourceRows ==
    /\ []C10_RowsOfEnabled
    /\ [][last'.op = "dislocSource" => (nodes' = nodes /\ segments' = segments)]_vars

\* a read of a path whose first segment is disabled and whose second is not
C10_Witness ==
    /\ last.op = "dislocSource"
    /\ Len(segments) >= 2
    /\ ~segments[1].enabled /\ segments[2].enabled

-----------------------------------------------------------------------------
(* The forward-model pipeline: DislocProcessor.process *)

\* the sources of one call, and the calls a caller makes
MaxSources == 2

MaxCalls == 2

\* nu in 1e-2: the default 1.25 and another material
NuValues == {DefaultNu, 25}

\* a source handed to process: a standalone patch (OkadaSource, or an
\* OkadaSegment with its enabled flag) or an OkadaPath; segs are its patches
Source(kind, nu, segs) == [kind |-> kind, nu |-> nu, segs |-> segs]

\* a standalone patch, 1 m or 2 m long according to its material
Patch(nu, en) ==
    LET far == IF nu = DefaultNu THEN 1 ELSE 2
    IN  Source("patch", nu,
               <<[_newSegment(<<0, 0>>, <<far, 0>>, 0) EXCEPT !.nu = nu, !.enabled = en]>>)

\* a path of the default material over the nodes (0,0), (0,1), (1,1)
Path(en1, en2) ==
    Source("path", DefaultNu,
           <<[_newSegment(<<0, 0>>, <<0, 1>>, 1) EXCEPT !.enabled = en1],
             [_newSegment(<<0, 1>>, <<1, 1>>, 2) EXCEPT !.enabled = en2]>>)

SourcePool ==
    {Patch(nu, en) : nu \in NuValues, en \in BOOLEAN}
    \cup {Path(en1, en2) : en1 \in BOOLEAN, en2 \in BOOLEAN}

SourceSeqs == UNION {[1..k -> SourcePool] : k \in 0..MaxSources}

\* observation points, as the caller orders them
CoordSeqs == {<< <<0, 0>> >>, << <<1, 0>>, <<0, 0>> >>}

\* the nthreads argument: left out, or given
Hints == {<<>>, <<2>>}

\* src.dislocSource() as numpy.vstack sees it, after atleast_2d: a patch gives
\* a vector of ten, hence one row, whatever its enabled flag; a path gives its
\* array of rows, and array([]) of shape (0,) becomes one row of no columns
dislocSource2d(src) ==
    IF src.kind = "patch" THEN <<OkadaSource_dislocSource(src.segs[1])>>
    ELSE LET rows == OkadaPath_dislocSource(src.segs)
         IN  IF rows = <<>> THEN << <<>> >> ELSE rows

RECURSIVE Concat(_)
Concat(arrs) == IF arrs = <<>> THEN <<>> ELSE Head(arrs) \o Concat(Tail(arrs))

\* numpy.vstack: no array to stack, or rows of different widths, is a
\* ValueError
vstack(arrs) ==
    LET rows == Concat(arrs)
    IN  IF arrs = <<>> \/ \E i, j \in 1..Len(rows) : Len(rows[i]) # Len(rows[j])
        THEN [status |-> "ValueError", rows |-> <<>>]
        ELSE [status |-> "ok", rows |-> rows]

\* the native solver's answer: a row per observation point with the north,
\* east and down displacement there, in that column order
disloc(src_arr, coords, nu, nthreads) ==
    [i \in 1..Len(coords) |->
        <<[comp |-> "north", at |-> coords[i]],
          [comp |-> "east", at |-> coords[i]],
          [comp |-> "down", at |-> coords[i]]>>]

\* res[:, c]
Column(res, c) == [i \in 1..Len(res) |-> res[i][c + 1]]

\* what one call of process leaves behind
Call(n, sources, coords, nthreads, calls, status, result) ==
    [n |-> n, sources |-> sources, coords |-> coords, nthreads |-> nthreads,
     calls |-> calls, status |-> status, result |-> result]

\* process that calls the solver a second time when the first call failed
ProcessRetrying(n, sources, coords, nthreads, fails) ==
    LET stacked == vstack([i \in 1..Len(sources) |-> dislocSource2d(sources[i])])
        hint == IF nthreads = <<>> THEN 0 ELSE nthreads[1]
        call == [src_arr |-> stacked.rows, coords |-> coords,
                 nu |-> sources[Len(sources)].nu, nthreads |-> hint,
                 raised |-> fails]
        res == disloc(stacked.rows, coords, call.nu, hint)
    IN  IF stacked.status # "ok"
        THEN Call(n, sources, coords, nthreads, <<>>, stacked.status, <<>>)
        ELSE Call(n, sources, coords, nthreads,
                  IF fails THEN <<call, [call EXCEPT !.raised = FALSE]>>
                           ELSE <<call>>, "ok",
                  <<[processor_profile |-> [id |-> n, items |-> {}],
                     north |-> Column(res, 0), east |-> Column(res, 1),
                     down |-> Column(res, 2)]>>)

\* process with the first two columns of the solver's answer exchanged
ProcessSwapped(n, sources, coords, nthreads, fails) ==
    LET stacked == vstack([i \in 1..Len(sources) |-> dislocSource2d(sources[i])])
        hint == IF nthreads = <<>> THEN 0 ELSE nthreads[1]
        call == [src_arr |-> stacked.rows, coords |-> coords,
                 nu |-> sources[Len(sources)].nu, nthreads |-> hint,
                 raised |-> fails]
        res == disloc(stacked.rows, coords, call.nu, hint)
    IN  IF stacked.status # "ok"
        THEN Call(n, sources, coords, nthreads, <<>>, stacked.status, <<>>)
        ELSE IF fails
        THEN Call(n, sources, coords, nthreads, <<call>>, "SolverError", <<>>)
        ELSE Call(n, sources, coords, nthreads, <<call>>, "ok",
                  <<[processor_profile |-> [id |-> n, items |-> {}],
                     north |-> Column(res, 1), east |-> Column(res, 0),
                     down |-> Column(res, 2)]>>)

\* DislocProcessor.process, the n-th call; fails: the solver raises, which the
\* record of the solver call keeps as raised.  The
\* result's processor_profile is the dict made by this call.  After the list
\* comprehension src is its last element, whose nu goes to the solver; with no
\* source vstack has raised before src is read.
process(n, sources, coords, nthreads, fails) ==
    LET stacked == vstack([i \in 1..Len(sources) |-> dislocSource2d(sources[i])])
        hint == IF nthreads = <<>> THEN 0 ELSE nthreads[1]
        call == [src_arr |-> stacked.rows, coords |-> coords,
                 nu |-> sources[Len(sources)].nu, nthreads |-> hint,
                 raised |-> fails]
        res == disloc(stacked.rows, coords, call.nu, hint)
    IN  IF stacked.status # "ok"
        THEN Call(n, sources, coords, nthreads, <<>>, stacked.status, <<>>)
        ELSE IF fails
        THEN Call(n, sources, coords, nthreads, <<call>>, "SolverError", <<>>)
        ELSE Call(n, sources, coords, nthreads, <<call>>, "ok",
                  <<[processor_profile |-> [id |-> n, items |-> {}],
                     north |-> Column(res, 0), east |-> Column(res, 1),
                     down |-> Column(res, 2)]>>)

\* a caller runs the pipeline
Process ==
    /\ proc.n < MaxCalls
    /\ \E sources \in SourceSeqs, coords \in CoordSeqs, nthreads \in Hints,
          fails \in BOOLEAN :
          proc' = process(proc.n + 1, sources, coords, nthreads, fails)
    /\ UNCHANGED <<pathVars, peer, scene>>

InitProcess == Init /\ nodes = << <<0, 0>> >> /\ ftype = "float"

SpecProcess == InitProcess /\ [][Process]_vars

-----------------------------------------------------------------------------
(* What the claims say of the pipeline *)

\* the source vectors of the enabled segments of all sources, in
\* source-then-segment order
RECURSIVE EnabledBatch(_)
EnabledBatch(sources) ==
    IF sources = <<>> THEN <<>>
    ELSE EnabledRows(Head(sources).segs) \o EnabledBatch(Tail(sources))

MixedNu(sources) == \E i, j \in 1..Len(sources) : sources[i].nu # sources[j].nu

Called == proc.n > 0

\* C11: process fails, without a call of the solver, whenever no segment of
\* any source is enabled: with no sources, and with sources whose segments are
\* all disabled.
C11_NoEnabledNoSolver ==
    (Called /\ EnabledBatch(proc.sources) = <<>>)
    => (proc.calls = <<>> /\ proc.status # "ok")

\* C12: the batch matrix given to the solver is exactly the source vectors of
\* the enabled segments of all sources, a row each, in source-then-segment
\* order, for every mix of patches and paths; a disabled segment, of a path or
\* standalone, gives no row.
C12_BatchOfEnabled ==
    \A i \in 1..Len(proc.calls) :
        proc.calls[i].src_arr = EnabledBatch(proc.sources)

\* C13: with sources of unequal nu, process either fails without a call of
\* the solver or gives the solver the nu of the first source.
C13_FirstNuOrRejected ==
    (Called /\ MixedNu(proc.sources))
    => \/ (proc.calls = <<>> /\ proc.status # "ok")
       \/ \A i \in 1..Len(proc.calls) : proc.calls[i].nu = proc.sources[1].nu

\* C14: a successful call of process calls the solver exactly once, with the
\* stacked matrix, the caller's coordinates, a nu of the sources and the
\* caller's thread hint (0 when left out); a failed one calls it at most once;
\* a failure of the solver is the failure of process, which returns nothing.
C14_SolverCalledOnce ==
    Called
    => /\ proc.status = "ok"
          => /\ Len(proc.calls) = 1
             /\ proc.result # <<>>
             /\ proc.calls[1].src_arr =
                   Concat([i \in 1..Len(proc.sources) |-> dislocSource2d(proc.sources[i])])
             /\ proc.calls[1].coords = proc.coords
             /\ \E i \in 1..Len(proc.sources) : proc.calls[1].nu = proc.sources[i].nu
             /\ proc.calls[1].nthreads = (IF proc.nthreads = <<>> THEN 0 ELSE proc.nthreads[1])
       /\ proc.status # "ok" => (Len(proc.calls) <= 1 /\ proc.result = <<>>)
       /\ (\E i \in 1..Len(proc.calls) : proc.calls[i].raised)
          => (proc.status = "SolverError" /\ proc.result = <<>>)

\* a second call that succeeded with two sources and no thread hint
C14_Witness ==
    /\ proc.n = 2 /\ proc.status = "ok"
    /\ Len(proc.sources) = 2 /\ proc.nthreads = <<>>

\* north, east and down of the result are the solver's columns 0, 1 and 2, a
\* value per observation point in the caller's order, and processor_profile
\* is empty
C15_Columns ==
    proc.status = "ok"
    => LET r == proc.result[1]
           Of(comp) == [i \in 1..Len(proc.coords) |-> [comp |-> comp, at |-> proc.coords[i]]]
       IN  /\ r.north = Of("north") /\ r.east = Of("east") /\ r.down = Of("down")
           /\ r.processor_profile.items = {}

\* C15: the result maps north, east and down to the solver's columns 0, 1 and
\* 2, unreordered, a value per observation point in input order; its
\* processor_profile is an empty mapping made anew by every call.
C15_ResultColumns ==
    /\ []C15_Columns
    /\ [][(proc.status = "ok" /\ proc'.status = "ok")
          => proc'.result[1].processor_profile.id # proc.result[1].processor_profile.id]_vars

\* a second successful call, over two observation points
C15_Witness ==
    /\ proc.n = 2 /\ proc.status = "ok"
    /\ Len(proc.coords) = 2 /\ proc.coords[1] # proc.coords[2]

-----------------------------------------------------------------------------
(* What the claims say of the source vector and of the derived geometry *)

\* the row is the source vector the claim describes for the patch s: dsrc[3]
\* is -dip, or for the vertical dip lies strictly between -90 and -89 degrees
SourceVectorOf(row, s) ==
    /\ Len(row) = 10
    /\ row[1] = s.length /\ row[2] = s.width /\ row[3] = s.depth
    /\ row[5] = s.strike /\ row[10] = s.opening
    /\ row[6] = s.easting /\ row[7] = s.northing
    /\ row[4] # -(VerticalDip * DipScale)
    /\ IF s.dip = VerticalDip
       THEN -(VerticalDip * DipScale) < row[4] /\ row[4] < -((VerticalDip - 1) * DipScale)
       ELSE row[4] = -(s.dip * DipScale)

C16_Rows ==
    last.op = "dislocSource"
    => \A i \in EnabledIndices : SourceVectorOf(last.ret[Rank(i)], segments[i])

\* C16: the source vector of a patch has -dip as element 3, but -(90 - eps)
\* with a small eps > 0 for dip = 90, so that -90 never reaches the solver;
\* elements 5 and 6 are its easting and northing, elements 0, 1, 2, 4, 9 its
\* length, width, depth, strike and opening; the call leaves the dip of the
\* patch as it was.
C16_SourceVector ==
    /\ []C16_Rows
    /\ [][last'.op = "dislocSource"
          => \A i \in 1..Len(segments) : segments'[i].dip = segments[i].dip]_vars

\* a read of a path with an enabled vertical segment and an enabled one of
\* the default dip
C16_Witness ==
    /\ last.op = "dislocSource"
    /\ \E i, j \in EnabledIndices :
          segments[i].dip = VerticalDip /\ segments[j].dip = DefaultDip

\* an angle in degrees, by its cosine and by whether it exceeds 180
Angle(cos, reflex) == [cos |-> cos, reflex |-> reflex]

\* the strike the segment stores: arccos yields an angle of 0 to 180 degrees
StrikeAngle(s) == Angle(s.strike, FALSE)

\* the clockwise-from-north bearing of P1 -> P2, in [0, 360): beyond 180
\* exactly when P2 lies to the west
Bearing(p1, p2) ==
    LET dE == p2[1] - p1[1]
        dN == p2[2] - p1[2]
    IN  Angle(Cosine(dN, dN * dN + dE * dE), dE < 0)

\* C17: the segment derived from two distinct nodes P1 -> P2 has the length
\* |P2 - P1| and as strike the clockwise-from-north bearing of P1 -> P2 in
\* [0, 360): north 0, east 90, south 180, west 270.
C17_LengthAndBearing ==
    (/\ last.op = "addNode" /\ last.status = "ok"
     /\ Len(nodes) >= 2 /\ Len(segments) >= 1
     /\ nodes[Len(nodes) - 1] # nodes[Len(nodes)])
    => LET p1 == nodes[Len(nodes) - 1]
           p2 == nodes[Len(nodes)]
           s == segments[Len(segments)]
       IN  /\ s.length = (p2[1] - p1[1]) * (p2[1] - p1[1])
                         + (p2[2] - p1[2]) * (p2[2] - p1[2])
           /\ StrikeAngle(s) = Bearing(p1, p2)

\* C18: deriving a segment from two coincident nodes always fails: no segment
\* of length 0 or of undefined strike is ever returned or stored, whatever
\* the numeric type of the coordinates.
C18_CoincidentNodesFail ==
    \A i \in 1..Len(segments) :
        segments[i].length # 0 /\ segments[i].strike # NaN

-----------------------------------------------------------------------------
(* Two paths *)

\* the edit calls a caller may make on a path with nodes ns and segments sg,
\* each with what it leaves
Edits(ns, sg, nid, P) ==
    (IF Len(ns) < MaxNodes
     THEN {[op |-> "addNode", pos |-> 0, r |-> addNode(ns, sg, nid, node)] : node \in P}
          \cup {[op |-> "insertNode", pos |-> pos, r |-> insertNode(ns, sg, nid, pos, node)] :
                   pos \in 0..Len(ns), node \in P}
     ELSE {})
    \cup {[op |-> "moveNode", pos |-> pos, r |-> moveNode(ns, sg, nid, pos, node)] :
             pos \in 0..Len(ns), node \in P}

\* both paths hold the one list that is the declared default of nodes
Aliased == peer.built /\ peer.default = "same"

PeerOp(op) ==
    CASE op = "addNode" -> "peer.addNode"
      [] op = "insertNode" -> "peer.insertNode"
      [] op = "moveNode" -> "peer.moveNode"

\* OkadaPath(origin_easting, origin_northing) once more: nodes is the default
\* of the attribute, to which the origin is appended if it is empty; the
\* segment list is new
Construct ==
    /\ ~peer.built
    /\ \E origin \in LinePoints :
          peer' = [peer EXCEPT !.built = TRUE,
                               !.origin = origin,
                               !.nodes = IF peer.default = "same" THEN nodes
                                                                 ELSE <<origin>>,
                               !.segments = <<>>]
    /\ last' = Result("peer.__init__", 0, "ok", <<>>)
    /\ UNCHANGED <<nodes, segments, nextId, ftype, proc, scene>>

\* an edit call on the first path
EditFirst ==
    \E e \in Edits(nodes, segments, nextId, LinePoints) :
       /\ nodes' = e.r.nodes
       /\ segments' = e.r.segments
       /\ nextId' = e.r.nextId
       /\ peer' = IF Aliased THEN [peer EXCEPT !.nodes = e.r.nodes] ELSE peer
       /\ last' = Result(e.op, e.pos, e.r.status, <<>>)
       /\ UNCHANGED <<ftype, proc, scene>>

\* an edit call on the second path
EditPeer ==
    /\ peer.built
    /\ \E e \in Edits(peer.nodes, peer.segments, peer.nextId, LinePoints) :
          /\ peer' = [peer EXCEPT !.nodes = e.r.nodes,
                                  !.segments = e.r.segments,
                                  !.nextId = e.r.nextId]
          /\ nodes' = IF Aliased THEN e.r.nodes ELSE nodes
          /\ last' = Result(PeerOp(e.op), e.pos, e.r.status, <<>>)
          /\ UNCHANGED <<segments, nextId, ftype, proc, scene>>

NextPaths == Construct \/ EditFirst \/ EditPeer

InitPaths ==
    /\ \E origin \in LinePoints : nodes = <<origin>>
    /\ segments = <<>>
    /\ nextId = 1
    /\ ftype = "float"
    /\ last = Result("__init__", 0, "ok", <<>>)
    /\ proc = NoCall
    /\ peer \in {NoPeer("same"), NoPeer("copy")}
    /\ scene = NewScene

SpecPaths == InitPaths /\ [][NextPaths]_vars

\* C19: each path owns its node list and its segment list: a path constructed
\* without a nodes argument starts with its own origin as its only node and
\* with no segment, and the edit calls on one path leave the nodes and the
\* segments of the other as they were.
C19_PathsOwnTheirLists ==
    /\ [][(~peer.built /\ peer'.built)
          => (peer'.nodes = <<peer'.origin>> /\ peer'.segments = <<>>)]_vars
    /\ [][(peer.built /\ Edited(last'.op))
          => (peer'.nodes = peer.nodes /\ peer'.segments = peer.segments)]_vars
    /\ [][(peer.built /\ peer'.built /\ ~Edited(last'.op))
          => (nodes' = nodes /\ segments' = segments)]_vars

-----------------------------------------------------------------------------
(* Subject and the notifying properties of Scene *)

\* the subscribe calls made on one scene
MaxSubs == 3

Listeners == {"l1", "l2"}

\* what a caller assigns: arrays, a float, a list, None
Values ==
    {[type |-> "ndarray", v |-> 1], [type |-> "ndarray", v |-> 2],
     [type |-> "float", v |-> 1], [type |-> "list", v |-> 1], None}

\* list.remove(x): the first occurrence goes
RemoveFirst(ls, l) ==
    LET i == CHOOSE k \in 1..Len(ls) : ls[k] = l /\ \A j \in 1..(k - 1) : ls[j] # l
    IN  SubSeq(ls, 1, i - 1) \o SubSeq(ls, i + 1, Len(ls))

\* _notify that walks the listeners from the last to the first
NotifyReversed(ls) == [i \in 1..Len(ls) |-> ls[Len(ls) + 1 - i]]

\* Subject._notify: the listeners it calls, in the order of the list
_notify(ls) == ls

\* _setDataNumpy: only an ndarray is stored
_setDataNumpy(value) == IF value.type = "ndarray" THEN "ok" ELSE "TypeError"

Did(sc, op, arg, status, notifies, invoked) ==
    [sc EXCEPT !.op = op, !.arg = arg, !.status = status,
               !.notifies = notifies, !.invoked = invoked]

\* Subject.subscribe
Subscribe ==
    /\ Len(scene.subscribed) < MaxSubs
    /\ \E l \in Listeners :
          scene' = [Did(scene, "subscribe", None, "ok", 0, <<>>)
                       EXCEPT !.listeners = Append(@, l),
                              !.subscribed = Append(@, l)]
    /\ UNCHANGED <<pathVars, proc, peer>>

\* Subject.unsubscribe: list.remove raises ValueError for a listener that is
\* not in the list
Unsubscribe ==
    /\ \E l \in Listeners :
          scene' = IF \E k \in 1..Len(scene.listeners) : scene.listeners[k] = l
                   THEN [Did(scene, "unsubscribe", None, "ok", 0, <<>>)
                            EXCEPT !.listeners = RemoveFirst(@, l),
                                   !.unsubscribed = Append(@, l)]
                   ELSE Did(scene, "unsubscribe", None, "ValueError", 0, <<>>)
    /\ UNCHANGED <<pathVars, proc, peer>>

\* a call of _notify by itself
Notify ==
    /\ scene' = Did(scene, "_notify", None, "ok", 1, _notify(scene.listeners))
    /\ UNCHANGED <<pathVars, proc, peer>>

\* scene.displacement = value
SetDisplacement ==
    /\ \E value \in Values :
          scene' = IF _setDataNumpy(value) = "ok"
                   THEN [Did(scene, "displacement", value, "ok", 1, _notify(scene.listeners))
                            EXCEPT !.displacement = value]
                   ELSE Did(scene, "displacement", value, "TypeError", 0, <<>>)
    /\ UNCHANGED <<pathVars, proc, peer>>

\* scene.phi = value: a float goes to _theta, anything else through
\* _setDataNumpy to _phi
SetPhi ==
    /\ \E value \in Values :
          scene' = IF value.type = "float"
                   THEN [Did(scene, "phi", value, "ok", 1, _notify(scene.listeners))
                            EXCEPT !.theta = value]
                   ELSE IF _setDataNumpy(value) = "ok"
                   THEN [Did(scene, "phi", value, "ok", 1, _notify(scene.listeners))
                            EXCEPT !.phi = value]
                   ELSE Did(scene, "phi", value, "TypeError", 0, <<>>)
    /\ UNCHANGED <<pathVars, proc, peer>>

\* scene.theta = value
SetTheta ==
    /\ \E value \in Values :
          scene' = IF value.type = "float" \/ _setDataNumpy(value) = "ok"
                   THEN [Did(scene, "theta", value, "ok", 1, _notify(scene.listeners))
                            EXCEPT !.theta = value]
                   ELSE Did(scene, "theta", value, "TypeError", 0, <<>>)
    /\ UNCHANGED <<pathVars, proc, peer>>

NextScene ==
    \/ Subscribe
    \/ Unsubscribe
    \/ Notify
    \/ SetDisplacement
    \/ SetPhi
    \/ SetTheta

InitScene == Init /\ nodes = << <<0, 0>> >> /\ ftype = "float"

SpecScene == InitScene /\ [][NextScene]_vars

-----------------------------------------------------------------------------
(* What the claim says of the observers *)

Count(s, x) == Cardinality({i \in 1..Len(s) : s[i] = x})

\* a is b with some of its elements left out
RECURSIVE IsSubseq(_, _)
IsSubseq(a, b) ==
    IF a = <<>> THEN TRUE
    ELSE IF b = <<>> THEN FALSE
    ELSE IF Head(a) = Head(b) THEN IsSubseq(Tail(a), Tail(b))
    ELSE IsSubseq(a, Tail(b))

Assigned == scene.op \in {"displacement", "phi", "theta"}

Stored(sc) == <<sc.displacement, sc.phi, sc.theta>>

\* every call of _notify reaches each listener once per subscription it still
\* has, in the order of the subscribe calls; an accepted assignment makes one
\* such call and a rejected one makes none
C20_Delivery ==
    /\ scene.notifies \in {0, 1}
    /\ scene.notifies = 1
       => /\ \A l \in Listeners :
                Count(scene.invoked, l) =
                   Count(scene.subscribed, l) - Count(scene.unsubscribed, l)
          /\ IsSubseq(scene.invoked, scene.subscribed)
    /\ scene.notifies = 0 => scene.invoked = <<>>
    /\ (Assigned /\ scene.status = "ok") => scene.notifies = 1
    /\ (Assigned /\ scene.status = "TypeError") => scene.notifies = 0
    /\ scene.op = "_notify" => scene.notifies = 1

\* C20: after any subscribe and unsubscribe calls, _notify invokes every
\* listener as many times as it is still subscribed, in subscription order,
\* and no listener that is fully unsubscribed; each successful assignment to
\* Scene.displacement, theta or phi makes exactly one _notify, and one rejected
\* with TypeError makes none and leaves the stored value as it was.
C20_ObserverDelivery ==
    /\ []C20_Delivery
    /\ [][(scene'.op \in {"displacement", "phi", "theta"} /\ scene'.status = "TypeError")
          => Stored(scene') = Stored(scene)]_vars

\* an accepted assignment of the displacement that reached both listeners,
\* after an unsubscribe that took the first subscription away
C20_Witness ==
    /\ scene.op = "displacement" /\ scene.status = "ok"
    /\ scene.unsubscribed # <<>>
    /\ \E l, k \in Listeners :
          l # k /\ Count(scene.invoked, l) = 1 /\ Count(scene.invoked, k) = 1
    /\ scene.invoked # SubSeq(scene.subscribed, 1, 2)

-----------------------------------------------------------------------------
(* Reading phi and theta *)

\* num.empty_like(self.displacement) filled with a float
Filled(value, like) == [type |-> "ndarray", fill |-> value, like |-> like]

\* the phi getter: a stored float is spread over the shape of the
\* displacement, anything else is returned as it is
Scene_phi(sc) ==
    IF sc.phi.type = "float" THEN Filled(sc.phi, sc.displacement) ELSE sc.phi

\* the theta getter
Scene_theta(sc) ==
    IF sc.theta.type = "float" THEN Filled(sc.theta, sc.displacement) ELSE sc.theta

\* what a read gives for an assigned value: the array itself, or the float
\* over the shape of the displacement
Reflects(read, value, like) ==
    read = (IF value.type = "float" THEN Filled(value, like) ELSE value)

\* C21: an accepted assignment to Scene.phi, of an array or of a float, leaves
\* the stored theta as it was and a read of phi then gives the assigned value;
\* an accepted assignment to Scene.theta leaves phi as it was.
C21_PhiThetaFrame ==
    /\ [][(scene'.op = "phi" /\ scene'.status = "ok")
          => /\ scene'.theta = scene.theta
             /\ Reflects(Scene_phi(scene'), scene'.arg, scene'.displacement)]_vars
    /\ [][(scene'.op = "theta" /\ scene'.status = "ok")
          => /\ scene'.phi = scene.phi
             /\ Scene_phi(scene') = Scene_phi(scene)]_vars

=============================================================================
